---- MODULE Spec2Model ----
(***************************************************************************)
(* Scoped writers of src/src/annotations.rs: the annotations array, the    *)
(* annotation dictionary and its nested action, file specification and     *)
(* border style dictionaries, the name tables of the enumerations and the  *)
(* annotation flags.                                                       *)
(*                                                                         *)
(* The writers sit on Dict, Array and Obj of the parent module, which is   *)
(* not part of the sources at hand.  That layer is                         *)
(* modelled as a stack of open scopes: a dictionary scope is a mapping     *)
(* from keys to values kept in insertion order, an array scope an ordered  *)
(* sequence, and finishing a scope commits its value into the slot of the  *)
(* scope it was opened from.  Every primitive operation is also recorded   *)
(* in the linear output `out`.                                             *)
(***************************************************************************)
EXTENDS Integers, Sequences, FiniteSets

VARIABLES
    stack,   \* the open scopes, outermost first
    out,     \* the linear output: every open, write and close in order
    nextId,  \* the identity the next opened scope gets
    doc,     \* the value of the root scope once it is finished
    calls,   \* the public calls made so far, with their arguments
    probe    \* the inputs of the name tables and of the flag sets

vars == <<stack, out, nextId, doc, calls, probe>>

(***************************************************************************)
(* Bounds                                                                  *)
(***************************************************************************)
MaxCalls == 4
MaxLinkCalls == 8
MaxPushCalls == 6
MaxUnion == 1
MaxFlagCalls == 2

(***************************************************************************)
(* Values                                                                  *)
(***************************************************************************)
Val(t, s, n, a, d) == [t |-> t, s |-> s, n |-> n, a |-> a, d |-> d]
VName(s) == Val("name", s, 0, <<>>, <<>>)
VStr(s) == Val("str", s, 0, <<>>, <<>>)
VText(s) == Val("text", s, 0, <<>>, <<>>)
VInt(n) == Val("int", "", n, <<>>, <<>>)
VReal(n) == Val("real", "", n, <<>>, <<>>)
VBool(b) == Val("bool", "", IF b THEN 1 ELSE 0, <<>>, <<>>)
VDate(n) == Val("date", "", n, <<>>, <<>>)
VRef(n) == Val("ref", "", n, <<>>, <<>>)
VArr(a) == Val("array", "", 0, a, <<>>)
VDict(d) == Val("dict", "", 0, <<>>, d)
VOpen(id) == Val("open", "", id, <<>>, <<>>)
VNone == Val("none", "", 0, <<>>, <<>>)

Reals(ns) == [j \in DOMAIN ns |-> VReal(ns[j])]
VRect(r) == VArr(Reals(r))

DictKinds == {"Annotation", "Action", "FileSpec", "BorderStyle"}
ArrayKinds == {"Annotations", "Array", "Destination"}

Frame(id, par, kind, key) ==
    [id |-> id, par |-> par, kind |-> kind, key |-> key, d |-> <<>>, a |-> <<>>]

Ev(e, id, par, kind, k, v) ==
    [e |-> e, id |-> id, par |-> par, kind |-> kind, k |-> k, v |-> v]

Call(op, s, n, opt, p) == [op |-> op, s |-> s, n |-> n, opt |-> opt, p |-> p]

(***************************************************************************)
(* The dictionary and array layer                                          *)
(***************************************************************************)
W == [stack |-> stack, out |-> out, nextId |-> nextId, doc |-> doc]

Top(w) == Len(w.stack)

HasKey(d, k) == \E j \in DOMAIN d : d[j].k = k

\* The value a dictionary holds for a key it has.
Lookup(d, k) == d[CHOOSE j \in DOMAIN d : d[j].k = k].v

PutEntryAppend(d, k, v) == Append(d, [k |-> k, v |-> v])

\* A dictionary is a mapping: writing a key it already has replaces the value.
PutEntry(d, k, v) ==
    IF HasKey(d, k)
    THEN [j \in DOMAIN d |-> IF d[j].k = k THEN [k |-> k, v |-> v] ELSE d[j]]
    ELSE Append(d, [k |-> k, v |-> v])

\* dict.pair(key, value) on the scope at position i.
DictPair(w, i, k, v) ==
    [w EXCEPT !.stack[i].d = PutEntry(@, k, v),
              !.out = Append(@, Ev("write", w.stack[i].id, 0, "", k, v))]

\* array.item(value) on the scope at position i.
ArrayItem(w, i, v) ==
    [w EXCEPT !.stack[i].a = Append(@, v),
              !.out = Append(@, Ev("write", w.stack[i].id, 0, "", "", v))]

RECURSIVE ArrayItems(_, _, _)
\* array.items(values): one item after the other.
ArrayItems(w, i, vs) ==
    IF vs = <<>> THEN w
    ELSE ArrayItems(ArrayItem(w, i, Head(vs)), i, Tail(vs))

\* dict.key(k) or array.obj() on the scope at position i, followed by
\* obj.dict() or obj.array(): the slot is taken and a new scope is opened on it.
Open(w, i, k, kind) ==
    LET f == w.stack[i]
        g == IF k = ""
             THEN [f EXCEPT !.a = Append(@, VOpen(w.nextId))]
             ELSE [f EXCEPT !.d = PutEntry(@, k, VOpen(w.nextId))]
    IN [w EXCEPT !.stack = Append([w.stack EXCEPT ![i] = g],
                                  Frame(w.nextId, f.id, kind, k)),
                 !.out = Append(@, Ev("open", w.nextId, f.id, kind, k, VNone)),
                 !.nextId = @ + 1]

FrameValue(f) == IF f.kind \in DictKinds THEN VDict(f.d) ELSE VArr(f.a)

Fill(f, id, val) ==
    [f EXCEPT !.d = [j \in DOMAIN f.d |->
                        IF f.d[j].v = VOpen(id)
                        THEN [k |-> f.d[j].k, v |-> val] ELSE f.d[j]],
              !.a = [j \in DOMAIN f.a |->
                        IF f.a[j] = VOpen(id) THEN val ELSE f.a[j]]]

\* The scope at position i ends (finish or drop): its value is committed into
\* the slot it was opened on.
Close(w, i) ==
    LET f == w.stack[i]
        val == FrameValue(f)
        rest == [j \in 1..(Len(w.stack) - 1) |->
                    IF j < i THEN w.stack[j] ELSE w.stack[j + 1]]
    IN [w EXCEPT !.stack = [j \in DOMAIN rest |->
                               IF rest[j].id = f.par
                               THEN Fill(rest[j], f.id, val) ELSE rest[j]],
                 !.out = Append(@, Ev("close", f.id, 0, "", "", VNone)),
                 !.doc = IF f.par = 0 THEN val ELSE @]

(***************************************************************************)
(* Exclusive handles                                                       *)
(***************************************************************************)
UsableShared(kind) == \E j \in DOMAIN stack : stack[j].kind = kind

\* A writer holds the only mutable handle: it can be used when no scope opened
\* from it is outstanding, that is, when it is the innermost open scope.
Usable(kind) == stack # <<>> /\ stack[Len(stack)].kind = kind

\* The position of the innermost open writer of a kind.
Self(kind) ==
    CHOOSE i \in DOMAIN stack :
        /\ stack[i].kind = kind
        /\ \A j \in DOMAIN stack : stack[j].kind = kind => j <= i

Budget(L) == Len(calls) < L

Apply(w, c) ==
    /\ stack' = w.stack
    /\ out' = w.out
    /\ nextId' = w.nextId
    /\ doc' = w.doc
    /\ calls' = Append(calls, c)
    /\ UNCHANGED probe

NoArg(op) == Call(op, "", <<>>, 0, <<>>)

(***************************************************************************)
(* Name tables                                                             *)
(***************************************************************************)
AnnotationType ==
    {"Text", "Link", "Line", "Square", "Circle", "Highlight", "Underline",
     "Squiggly", "StrikeOut", "FileAttachment"}

AnnotationType_to_name(kind) ==
    CASE kind = "Text" -> "Text"
      [] kind = "Link" -> "Link"
      [] kind = "Line" -> "Line"
      [] kind = "Square" -> "Square"
      [] kind = "Circle" -> "Circle"
      [] kind = "Highlight" -> "Highlight"
      [] kind = "Underline" -> "Underline"
      [] kind = "Squiggly" -> "Squiggly"
      [] kind = "StrikeOut" -> "StrikeOut"
      [] kind = "FileAttachment" -> "FileAttachment"

AnnotationIcon ==
    {"Comment", "Key", "Note", "Help", "NewParagraph", "Paragraph", "Insert",
     "Graph", "PushPin", "Paperclip", "Tag"}

AnnotationIcon_to_name(icon) ==
    CASE icon = "Comment" -> "Comment"
      [] icon = "Key" -> "Key"
      [] icon = "Note" -> "Note"
      [] icon = "Help" -> "Help"
      [] icon = "NewParagraph" -> "NewParagraph"
      [] icon = "Paragraph" -> "Paragraph"
      [] icon = "Insert" -> "Insert"
      [] icon = "Graph" -> "Graph"
      [] icon = "PushPin" -> "PushPin"
      [] icon = "Paperclip" -> "Paperclip"
      [] icon = "Tag" -> "Tag"

ActionType == {"GoTo", "RemoteGoTo", "Launch", "Uri"}

ActionType_to_name(kind) ==
    CASE kind = "GoTo" -> "GoTo"
      [] kind = "RemoteGoTo" -> "GoToR"
      [] kind = "Launch" -> "Launch"
      [] kind = "Uri" -> "URI"

HighlightEffect == {"None", "Invert", "Outline", "Push"}

HighlightEffect_to_name(effect) ==
    CASE effect = "None" -> "N"
      [] effect = "Invert" -> "I"
      [] effect = "Outline" -> "O"
      [] effect = "Push" -> "P"

BorderType == {"Solid", "Dashed", "Beveled", "Inset", "Underline"}

BorderType_to_name_aliased(style) ==
    CASE style = "Solid" -> "S"
      [] style = "Dashed" -> "D"
      [] style = "Beveled" -> "B"
      [] style = "Inset" -> "I"
      [] style = "Underline" -> "D"

BorderType_to_name(style) ==
    CASE style = "Solid" -> "S"
      [] style = "Dashed" -> "D"
      [] style = "Beveled" -> "B"
      [] style = "Inset" -> "I"
      [] style = "Underline" -> "U"

(***************************************************************************)
(* Annotation flags                                                        *)
(***************************************************************************)
\* A u32 is the set of the positions of its set bits.
Bit == 0..31

\* x << n
Shl(x, n) == {b + n : b \in x} \cap Bit

\* x | y
BitOr(x, y) == x \cup y

AnnotationFlags ==
    {"INVISIBLE", "HIDDEN", "PRINT", "NO_ZOOM", "NO_ROTATE", "NO_VIEW",
     "READ_ONLY", "LOCKED", "TOGGLE_NO_VIEW", "LOCKED_CONTENTS"}

FlagConstHigh(flag) ==
    CASE flag = "INVISIBLE" -> Shl({0}, 0)
      [] flag = "HIDDEN" -> Shl({0}, 1)
      [] flag = "PRINT" -> Shl({0}, 2)
      [] flag = "NO_ZOOM" -> Shl({0}, 3)
      [] flag = "NO_ROTATE" -> Shl({0}, 4)
      [] flag = "NO_VIEW" -> Shl({0}, 5)
      [] flag = "READ_ONLY" -> Shl({0}, 6)
      [] flag = "LOCKED" -> Shl({0}, 7)
      [] flag = "TOGGLE_NO_VIEW" -> Shl({0}, 8)
      [] flag = "LOCKED_CONTENTS" -> Shl({0}, 31)

\* The constant each flag is declared with.
FlagConst(flag) ==
    CASE flag = "INVISIBLE" -> Shl({0}, 0)
      [] flag = "HIDDEN" -> Shl({0}, 1)
      [] flag = "PRINT" -> Shl({0}, 2)
      [] flag = "NO_ZOOM" -> Shl({0}, 3)
      [] flag = "NO_ROTATE" -> Shl({0}, 4)
      [] flag = "NO_VIEW" -> Shl({0}, 5)
      [] flag = "READ_ONLY" -> Shl({0}, 6)
      [] flag = "LOCKED" -> Shl({0}, 7)
      [] flag = "TOGGLE_NO_VIEW" -> Shl({0}, 8)
      [] flag = "LOCKED_CONTENTS" -> Shl({0}, 9)

RECURSIVE bits(_)
\* The integer of a flag set: the or of the constants of its flags.
bits(flags) ==
    IF flags = {} THEN {}
    ELSE LET f == CHOOSE x \in flags : TRUE
         IN BitOr(FlagConst(f), bits(flags \ {f}))

RECURSIVE SumPow2(_)
SumPow2(x) ==
    IF x = {} THEN 0
    ELSE LET b == CHOOSE c \in x : TRUE IN 2^b + SumPow2(x \ {b})

\* `x as i32` of a u32: the same bits read in two's complement.
AsI32(x) ==
    IF 31 \in x THEN ((0 - 2^30) + SumPow2(x \ {31})) - 2^30 ELSE SumPow2(x)

(***************************************************************************)
(* Inputs                                                                  *)
(***************************************************************************)
SubtypeInputs == {"Link", "Text"}
RectInputs == {<<0, 0, 100, 50>>}
TextInputs == {"hello"}
ElementTexts == {"first", "second"}
DateInputs == {20261105}
FlagInputs == {{"HIDDEN", "PRINT"}}
RadiiInputs == {<<1, 2, 3>>}
DashInputs == {<<>>, <<4, 5>>}
GrayInputs == {5, 20}
RgbInputs == {<<10, 0, 0>>}
CmykInputs == {<<0, 0, 0, 10>>}
HighlightInputs == {"Invert"}
QuadInputs == {<<1, 2>>}
LineInputs == {<<1, 2, 3, 4>>}
IconInputs == {"Comment"}
NameInputs == {"Foo"}
ActionTypeInputs == {"Uri", "GoTo"}
RefInputs == {7}
UriInputs == {"https://example.com"}
PathInputs == {"a/b"}
BorderTypeInputs == {"Dashed"}
WidthInputs == {2}

(***************************************************************************)
(* Annotations and Annotation                                              *)
(***************************************************************************)
Annotations_start(w) ==
    [w EXCEPT !.stack = <<Frame(w.nextId, 0, "Annotations", "")>>,
              !.out = Append(@, Ev("open", w.nextId, 0, "Annotations", "", VNone)),
              !.nextId = @ + 1]

Annotation_new(w, i, k) ==
    DictPair(Open(w, i, k, "Annotation"), Top(w) + 1, "Type", VName("Annot"))

push(L) ==
    /\ Budget(L)
    /\ Usable("Annotations")
    /\ Apply(Annotation_new(W, Self("Annotations"), ""), NoArg("push"))

Init ==
    LET w == Annotations_start([stack |-> <<>>, out |-> <<>>, nextId |-> 1,
                                doc |-> VNone])
    IN /\ stack = w.stack
       /\ out = w.out
       /\ nextId = w.nextId
       /\ doc = w.doc
       /\ calls = <<>>
       /\ probe = <<>>

\* A call of a method of the innermost writer of a kind.
Do(L, kind, w, c) ==
    /\ Budget(L)
    /\ Usable(kind)
    /\ Apply(w, c)

Me == Self("Annotation")

subtype(L, kind) ==
    Do(L, "Annotation",
       DictPair(W, Me, "Subtype", VName(AnnotationType_to_name(kind))),
       Call("subtype", kind, <<>>, 0, <<>>))

rect(L, r) ==
    Do(L, "Annotation", DictPair(W, Me, "Rect", VRect(r)),
       Call("rect", "", r, 0, <<>>))

contents(L, text) ==
    Do(L, "Annotation", DictPair(W, Me, "Contents", VText(text)),
       Call("contents", text, <<>>, 0, <<>>))

name(L, text) ==
    Do(L, "Annotation", DictPair(W, Me, "NM", VText(text)),
       Call("name", text, <<>>, 0, <<>>))

modified(L, date) ==
    Do(L, "Annotation", DictPair(W, Me, "M", VDate(date)),
       Call("modified", "", <<date>>, 0, <<>>))

Annotation_flags(w, i, flags) == DictPair(w, i, "F", VInt(AsI32(bits(flags))))

flags(L, f) ==
    Do(L, "Annotation", Annotation_flags(W, Me, f), NoArg("flags"))

Annotation_border_padded(w, i, h, v, width, opt, p) ==
    LET t == Top(w) + 1
        a == ArrayItem(ArrayItem(ArrayItem(Open(w, i, "Border", "Array"),
                 t, VReal(h)), t, VReal(v)), t, VReal(width))
        b == Close(ArrayItems(Open(a, t, "", "Array"), t + 1,
                              IF opt = 1 THEN Reals(p) ELSE <<>>), t + 1)
    IN Close(b, t)

Annotation_border_misnested(w, i, h, v, width, opt, p) ==
    LET t == Top(w) + 1
        a == ArrayItem(ArrayItem(ArrayItem(Open(w, i, "Border", "Array"),
                 t, VReal(h)), t, VReal(v)), t, VReal(width))
        b == IF opt = 1
             THEN Close(Close(ArrayItems(Open(a, t, "", "Array"), t + 1, Reals(p)),
                              t), t)
             ELSE Close(a, t)
    IN b

Annotation_border(w, i, h, v, width, opt, p) ==
    LET t == Top(w) + 1
        a == ArrayItem(ArrayItem(ArrayItem(Open(w, i, "Border", "Array"),
                 t, VReal(h)), t, VReal(v)), t, VReal(width))
        b == IF opt = 1
             THEN Close(ArrayItems(Open(a, t, "", "Array"), t + 1, Reals(p)), t + 1)
             ELSE a
    IN Close(b, t)

border(L, r, opt, p) ==
    Do(L, "Annotation", Annotation_border(W, Me, r[1], r[2], r[3], opt, p),
       Call("border", "", r, opt, p))

BorderStyle_new(w, i, k) ==
    DictPair(Open(w, i, k, "BorderStyle"), Top(w) + 1, "Type", VName("Border"))

border_style(L) ==
    Do(L, "Annotation", BorderStyle_new(W, Me, "BS"), NoArg("border_style"))

\* self.key(k).array().typed().items(values); the array ends with the statement.
KeyArrayItems(w, i, k, ns) ==
    Close(ArrayItems(Open(w, i, k, "Array"), Top(w) + 1, Reals(ns)), Top(w) + 1)

color_transparent(L) ==
    Do(L, "Annotation", Close(Open(W, Me, "C", "Array"), Top(W) + 1),
       NoArg("color_transparent"))

color_gray(L, gray) ==
    Do(L, "Annotation",
       Close(ArrayItem(Open(W, Me, "C", "Array"), Top(W) + 1, VReal(gray)),
             Top(W) + 1),
       Call("color_gray", "", <<gray>>, 0, <<>>))

color_rgb(L, c) ==
    Do(L, "Annotation", KeyArrayItems(W, Me, "C", <<c[1], c[2], c[3]>>),
       Call("color_rgb", "", c, 0, <<>>))

color_cmyk_reversed(L, c) ==
    Do(L, "Annotation", KeyArrayItems(W, Me, "C", <<c[4], c[3], c[2], c[1]>>),
       Call("color_cmyk", "", c, 0, <<>>))

color_cmyk(L, c) ==
    Do(L, "Annotation", KeyArrayItems(W, Me, "C", <<c[1], c[2], c[3], c[4]>>),
       Call("color_cmyk", "", c, 0, <<>>))

Action_new_untyped(w, i, k) == Open(w, i, k, "Action")

Action_new(w, i, k) ==
    DictPair(Open(w, i, k, "Action"), Top(w) + 1, "Type", VName("Action"))

action_flat(L) ==
    Do(L, "Annotation",
       DictPair(Open(W, Me, "A", "Action"), Me, "Type", VName("Action")),
       NoArg("action"))

action(L) ==
    Do(L, "Annotation", Action_new(W, Me, "A"), NoArg("action"))

highlight(L, effect) ==
    Do(L, "Annotation",
       DictPair(W, Me, "H", VName(HighlightEffect_to_name(effect))),
       Call("highlight", effect, <<>>, 0, <<>>))

author(L, text) ==
    Do(L, "Annotation", DictPair(W, Me, "T", VText(text)),
       Call("author", text, <<>>, 0, <<>>))

subject(L, text) ==
    Do(L, "Annotation", DictPair(W, Me, "Subj", VText(text)),
       Call("subject", text, <<>>, 0, <<>>))

quad_points(L, coordinates) ==
    Do(L, "Annotation", KeyArrayItems(W, Me, "QuadPoints", coordinates),
       Call("quad_points", "", coordinates, 0, <<>>))

line_to(L, c) ==
    Do(L, "Annotation", KeyArrayItems(W, Me, "LL", <<c[1], c[2], c[3], c[4]>>),
       Call("line_to", "", c, 0, <<>>))

FileSpec_new(w, i, k) ==
    DictPair(Open(w, i, k, "FileSpec"), Top(w) + 1, "Type", VName("Filespec"))

file(L) ==
    Do(L, "Annotation", FileSpec_new(W, Me, "FS"), NoArg("file"))

icon_predefined(L, icon) ==
    Do(L, "Annotation",
       DictPair(W, Me, "Name", VName(AnnotationIcon_to_name(icon))),
       Call("icon_predefined", icon, <<>>, 0, <<>>))

icon_custom_other_key(L, n) ==
    Do(L, "Annotation", DictPair(W, Me, "Icon", VName(n)),
       Call("icon_custom", n, <<>>, 0, <<>>))

icon_custom(L, n) ==
    Do(L, "Annotation", DictPair(W, Me, "Name", VName(n)),
       Call("icon_custom", n, <<>>, 0, <<>>))

(***************************************************************************)
(* Action                                                                  *)
(***************************************************************************)
Act == Self("Action")

action_type(L, kind) ==
    Do(L, "Action", DictPair(W, Act, "S", VName(ActionType_to_name(kind))),
       Call("action_type", kind, <<>>, 0, <<>>))

\* Destination::start(obj, page): an array scope that starts with the page.
Destination_start(w, i, k, page) ==
    ArrayItem(Open(w, i, k, "Destination"), Top(w) + 1, VRef(page))

dest_direct(L, page) ==
    Do(L, "Action", Destination_start(W, Act, "D", page),
       Call("dest_direct", "", <<page>>, 0, <<>>))

dest_named(L, n) ==
    Do(L, "Action", DictPair(W, Act, "D", VName(n)),
       Call("dest_named", n, <<>>, 0, <<>>))

Action_file(L) ==
    Do(L, "Action", FileSpec_new(W, Act, "F"), NoArg("Action.file"))

new_window(L, new) ==
    Do(L, "Action", DictPair(W, Act, "NewWindow", VBool(new)),
       Call("new_window", "", <<>>, IF new THEN 1 ELSE 0, <<>>))

uri(L, u) ==
    Do(L, "Action", DictPair(W, Act, "URI", VStr(u)),
       Call("uri", u, <<>>, 0, <<>>))

is_map(L, map) ==
    Do(L, "Action", DictPair(W, Act, "IsMap", VBool(map)),
       Call("is_map", "", <<>>, IF map THEN 1 ELSE 0, <<>>))

(***************************************************************************)
(* FileSpec                                                                *)
(***************************************************************************)
Fs == Self("FileSpec")

file_system(L, system) ==
    Do(L, "FileSpec", DictPair(W, Fs, "FS", VName(system)),
       Call("file_system", system, <<>>, 0, <<>>))

FileSpec_file(L, path) ==
    Do(L, "FileSpec", DictPair(W, Fs, "F", VStr(path)),
       Call("FileSpec.file", path, <<>>, 0, <<>>))

unic_file(L, path) ==
    Do(L, "FileSpec", DictPair(W, Fs, "UF", VText(path)),
       Call("unic_file", path, <<>>, 0, <<>>))

volatile(L, no_cache) ==
    Do(L, "FileSpec", DictPair(W, Fs, "V", VBool(no_cache)),
       Call("volatile", "", <<>>, IF no_cache THEN 1 ELSE 0, <<>>))

description(L, desc) ==
    Do(L, "FileSpec", DictPair(W, Fs, "Desc", VText(desc)),
       Call("description", desc, <<>>, 0, <<>>))

(***************************************************************************)
(* BorderStyle                                                             *)
(***************************************************************************)
Bs == Self("BorderStyle")

width(L, points) ==
    Do(L, "BorderStyle", DictPair(W, Bs, "W", VReal(points)),
       Call("width", "", <<points>>, 0, <<>>))

style(L, s) ==
    Do(L, "BorderStyle", DictPair(W, Bs, "S", VName(BorderType_to_name(s))),
       Call("style", s, <<>>, 0, <<>>))

dashes(L, dash_pattern) ==
    Do(L, "BorderStyle", KeyArrayItems(W, Bs, "D", dash_pattern),
       Call("dashes", "", <<>>, 0, dash_pattern))

(***************************************************************************)
(* The end of a writer's scope                                             *)
(***************************************************************************)
Finish(L, kind) ==
    Do(L, kind, Close(W, Self(kind)), Call("finish", kind, <<>>, 0, <<>>))

EncoderKinds == DictKinds \cup {"Annotations", "Destination"}

(***************************************************************************)
(* Every call sequence of up to MaxCalls calls                             *)
(***************************************************************************)
Next ==
    \/ push(MaxCalls)
    \/ \E kind \in SubtypeInputs : subtype(MaxCalls, kind)
    \/ \E r \in RectInputs : rect(MaxCalls, r)
    \/ \E t \in TextInputs : contents(MaxCalls, t)
    \/ \E t \in TextInputs : name(MaxCalls, t)
    \/ \E d \in DateInputs : modified(MaxCalls, d)
    \/ \E f \in FlagInputs : flags(MaxCalls, f)
    \/ \E r \in RadiiInputs : border(MaxCalls, r, 0, <<>>)
    \/ \E r \in RadiiInputs, p \in DashInputs : border(MaxCalls, r, 1, p)
    \/ border_style(MaxCalls)
    \/ color_transparent(MaxCalls)
    \/ \E g \in GrayInputs : color_gray(MaxCalls, g)
    \/ \E c \in RgbInputs : color_rgb(MaxCalls, c)
    \/ \E c \in CmykInputs : color_cmyk(MaxCalls, c)
    \/ action(MaxCalls)
    \/ \E e \in HighlightInputs : highlight(MaxCalls, e)
    \/ \E t \in TextInputs : author(MaxCalls, t)
    \/ \E t \in TextInputs : subject(MaxCalls, t)
    \/ \E q \in QuadInputs : quad_points(MaxCalls, q)
    \/ \E c \in LineInputs : line_to(MaxCalls, c)
    \/ file(MaxCalls)
    \/ \E i \in IconInputs : icon_predefined(MaxCalls, i)
    \/ \E n \in NameInputs : icon_custom(MaxCalls, n)
    \/ \E k \in ActionTypeInputs : action_type(MaxCalls, k)
    \/ \E p \in RefInputs : dest_direct(MaxCalls, p)
    \/ \E n \in NameInputs : dest_named(MaxCalls, n)
    \/ Action_file(MaxCalls)
    \/ \E b \in BOOLEAN : new_window(MaxCalls, b)
    \/ \E u \in UriInputs : uri(MaxCalls, u)
    \/ \E b \in BOOLEAN : is_map(MaxCalls, b)
    \/ \E n \in NameInputs : file_system(MaxCalls, n)
    \/ \E p \in PathInputs : FileSpec_file(MaxCalls, p)
    \/ \E p \in PathInputs : unic_file(MaxCalls, p)
    \/ \E b \in BOOLEAN : volatile(MaxCalls, b)
    \/ \E t \in TextInputs : description(MaxCalls, t)
    \/ \E x \in WidthInputs : width(MaxCalls, x)
    \/ \E s \in BorderTypeInputs : style(MaxCalls, s)
    \/ \E p \in DashInputs : dashes(MaxCalls, p)
    \/ \E kind \in EncoderKinds : Finish(MaxCalls, kind)

Spec == Init /\ [][Next]_vars

(***************************************************************************)
(* One link annotation, up to MaxLinkCalls calls                           *)
(***************************************************************************)
NextLink ==
    \/ push(MaxLinkCalls)
    \/ \E kind \in SubtypeInputs : subtype(MaxLinkCalls, kind)
    \/ \E r \in RectInputs : rect(MaxLinkCalls, r)
    \/ action(MaxLinkCalls)
    \/ \E k \in ActionTypeInputs : action_type(MaxLinkCalls, k)
    \/ \E u \in UriInputs : uri(MaxLinkCalls, u)
    \/ \E kind \in {"Annotations", "Annotation", "Action"} :
          Finish(MaxLinkCalls, kind)

SpecLink == Init /\ [][NextLink]_vars

(***************************************************************************)
(* Several elements pushed one after the other, up to MaxPushCalls calls   *)
(***************************************************************************)
NextPush ==
    \/ push(MaxPushCalls)
    \/ \E t \in ElementTexts : contents(MaxPushCalls, t)
    \/ \E g \in GrayInputs : color_gray(MaxPushCalls, g)
    \/ action(MaxPushCalls)
    \/ \E u \in UriInputs : uri(MaxPushCalls, u)
    \/ \E kind \in {"Annotations", "Annotation", "Action"} :
          Finish(MaxPushCalls, kind)

SpecPush == Init /\ [][NextPush]_vars

(***************************************************************************)
(* Flag sets: every set united with every set of up to MaxUnion flags      *)
(***************************************************************************)
InitFlags ==
    LET w == Annotations_start([stack |-> <<>>, out |-> <<>>, nextId |-> 1,
                                doc |-> VNone])
    IN /\ stack = w.stack
       /\ out = w.out
       /\ nextId = w.nextId
       /\ doc = w.doc
       /\ calls = <<>>
       /\ probe \in {[a |-> x, b |-> y] :
                        x \in SUBSET AnnotationFlags,
                        y \in {z \in SUBSET AnnotationFlags :
                                  Cardinality(z) <= MaxUnion}}

NextFlags ==
    \/ push(MaxFlagCalls)
    \/ flags(MaxFlagCalls, probe.a \cup probe.b)

SpecFlags == InitFlags /\ [][NextFlags]_vars

(***************************************************************************)
(* Name tables: every pair of variants of one enumeration                  *)
(***************************************************************************)
Enums == {"AnnotationType", "AnnotationIcon", "ActionType", "HighlightEffect",
          "BorderType"}

Variants(enum) ==
    CASE enum = "AnnotationType" -> AnnotationType
      [] enum = "AnnotationIcon" -> AnnotationIcon
      [] enum = "ActionType" -> ActionType
      [] enum = "HighlightEffect" -> HighlightEffect
      [] enum = "BorderType" -> BorderType

to_name(enum, variant) ==
    CASE enum = "AnnotationType" -> AnnotationType_to_name(variant)
      [] enum = "AnnotationIcon" -> AnnotationIcon_to_name(variant)
      [] enum = "ActionType" -> ActionType_to_name(variant)
      [] enum = "HighlightEffect" -> HighlightEffect_to_name(variant)
      [] enum = "BorderType" -> BorderType_to_name(variant)

InitNames ==
    LET w == Annotations_start([stack |-> <<>>, out |-> <<>>, nextId |-> 1,
                                doc |-> VNone])
    IN /\ stack = w.stack
       /\ out = w.out
       /\ nextId = w.nextId
       /\ doc = w.doc
       /\ calls = <<>>
       /\ \E enum \in Enums :
             probe \in {[enum |-> enum, a |-> x, b |-> y, done |-> FALSE,
                         ta |-> "", tb |-> ""] :
                           x \in Variants(enum), y \in Variants(enum)}

ToName ==
    /\ ~probe.done
    /\ probe' = [probe EXCEPT !.done = TRUE,
                              !.ta = to_name(probe.enum, probe.a),
                              !.tb = to_name(probe.enum, probe.b)]
    /\ UNCHANGED <<stack, out, nextId, doc, calls>>

NextNames == ToName

SpecNames == InitNames /\ [][NextNames]_vars

(***************************************************************************)
(* Reading the linear output                                               *)
(***************************************************************************)
LastCall == calls[Len(calls)]
TopFrame == stack[Len(stack)]

Range(f) == {f[j] : j \in DOMAIN f}

OpenIdx(id) == CHOOSE p \in DOMAIN out : out[p].e = "open" /\ out[p].id = id
KindOf(id) == out[OpenIdx(id)].kind
IsClosed(id) == \E p \in DOMAIN out : out[p].e = "close" /\ out[p].id = id

\* The scope an output event acts on: a write or a close acts on its own scope,
\* the opening of a child takes a slot of the parent.
Target(ev) == IF ev.e = "open" THEN ev.par ELSE ev.id

\* Event p puts a value into slot k of scope id.
Targets(p, id, k) ==
    /\ out[p].e \in {"write", "open"}
    /\ Target(out[p]) = id
    /\ out[p].k = k

RECURSIVE LastFrom(_, _, _)
LastFrom(id, k, n) == IF Targets(n, id, k) THEN n ELSE LastFrom(id, k, n - 1)

\* The last event that puts a value into slot k of scope id.
LastIdx(id, k) == LastFrom(id, k, Len(out))

RECURSIVE KeySeq(_, _)
\* The keys given to dictionary scope id by the first n events, in first use order.
KeySeq(id, n) ==
    IF n = 0 THEN <<>>
    ELSE LET ks == KeySeq(id, n - 1)
         IN IF Targets(n, id, out[n].k) /\ out[n].k \notin Range(ks)
            THEN Append(ks, out[n].k) ELSE ks

RECURSIVE Written(_)
RECURSIVE Given(_)
RECURSIVE ItemsOf(_, _)
RECURSIVE EntriesOf(_, _)

\* The value event p puts into its slot: the value written, or the value of the
\* scope opened on the slot once that scope is closed.
Given(p) ==
    IF out[p].e = "write" THEN out[p].v
    ELSE IF IsClosed(out[p].id) THEN Written(out[p].id)
    ELSE VOpen(out[p].id)

\* The items the first n events append to array scope id, in order.
ItemsOf(id, n) ==
    IF n = 0 THEN <<>>
    ELSE IF Targets(n, id, "") THEN Append(ItemsOf(id, n - 1), Given(n))
    ELSE ItemsOf(id, n - 1)

\* The entries of dictionary scope id for the keys ks: each key with the value
\* of the last event that gave it.
EntriesOf(id, ks) ==
    IF ks = <<>> THEN <<>>
    ELSE <<[k |-> Head(ks), v |-> Given(LastIdx(id, Head(ks)))]>>
             \o EntriesOf(id, Tail(ks))

\* The value the calls gave to scope id, read off the output: for a dictionary
\* the value of the last event on each key, for an array the items in order.
Written(id) ==
    IF KindOf(id) \in DictKinds
    THEN VDict(EntriesOf(id, KeySeq(id, Len(out))))
    ELSE VArr(ItemsOf(id, Len(out)))

IsAnnotationOpen(ev) == ev.e = "open" /\ ev.kind = "Annotation"

\* The identities of the annotation scopes in the order they were opened.
Elements == LET s == SelectSeq(out, IsAnnotationOpen) IN [j \in DOMAIN s |-> s[j].id]

\* The items of the annotations array as far as it is written.
RootItems ==
    IF stack # <<>> /\ stack[1].kind = "Annotations" THEN stack[1].a ELSE doc.a

RECURSIVE ElementOf(_)
\* The annotation scope a scope lies in, 0 for the annotations array itself.
ElementOf(id) ==
    LET ev == out[OpenIdx(id)]
    IN IF ev.kind = "Annotation" THEN id
       ELSE IF ev.par = 0 THEN 0 ELSE ElementOf(ev.par)

RECURSIVE DictsIn(_)
\* Every dictionary in a value, itself included.
DictsIn(v) ==
    IF v.t = "dict"
    THEN {v.d} \cup UNION {DictsIn(v.d[j].v) : j \in DOMAIN v.d}
    ELSE IF v.t = "array" THEN UNION {DictsIn(v.a[j]) : j \in DOMAIN v.a}
    ELSE {}

\* Every dictionary written so far, open or finished.
AllDicts == DictsIn(doc) \cup UNION {DictsIn(FrameValue(stack[j])) : j \in DOMAIN stack}

(***************************************************************************)
(* C1: a scope has at most one open child, and while a child opened from   *)
(* it is open nothing is written to it, nothing else is opened from it and *)
(* it is not finished: whatever was opened from a scope before an event on *)
(* that scope was closed before that event.  The open scopes form one      *)
(* chain, each opened from the one below it.                               *)
(***************************************************************************)
C1_ChildClosedBeforeParentAdvances ==
    /\ \A q \in DOMAIN out : \A p \in 1..(q - 1) :
          (out[p].e = "open" /\ out[p].par = Target(out[q]))
              => \E r \in (p + 1)..(q - 1) :
                    out[r].e = "close" /\ out[r].id = out[p].id
    /\ \A j \in DOMAIN stack :
          /\ ~IsClosed(stack[j].id)
          /\ j > 1 => stack[j].par = stack[j - 1].id

\* A nested writer was opened from an annotation and finished, and a sibling
\* field of the annotation was written afterwards.
C1_Witness ==
    \E p, r, q \in DOMAIN out :
        /\ p < r /\ r < q
        /\ out[p].e = "open" /\ out[p].kind \in {"Action", "BorderStyle", "FileSpec"}
        /\ out[r].e = "close" /\ out[r].id = out[p].id
        /\ out[q].e = "write" /\ out[q].id = out[p].par

(***************************************************************************)
(* C2: no dictionary, open or finished, holds a key more than once, also   *)
(* after a setter was called twice or two setters gave the same key.       *)
(***************************************************************************)
UniqueKeys(d) == \A i, j \in DOMAIN d : d[i].k = d[j].k => i = j

ElementDict(j) ==
    LET id == Elements[j]
    IN IF IsClosed(id) THEN RootItems[j].d
       ELSE stack[CHOOSE i \in DOMAIN stack : stack[i].id = id].d

NameValues(d) == {d[j].v : j \in {i \in DOMAIN d : d[i].k = "Name"}}

IsPush(c) == c.op = "push"

C4_PushOrder ==
    /\ Len(Elements) = Len(SelectSeq(calls, IsPush))
    /\ Len(RootItems) = Len(Elements)
    /\ \A j \in DOMAIN Elements :
          RootItems[j] = IF IsClosed(Elements[j]) THEN Written(Elements[j])
                         ELSE VOpen(Elements[j])
    /\ \A j \in DOMAIN Elements :
          j > 1 => \E r \in 1..OpenIdx(Elements[j]) :
                      out[r].e = "close" /\ out[r].id = Elements[j - 1]
    /\ \A p, q \in DOMAIN out :
          (p < q /\ IsAnnotationOpen(out[p]))
              => LET el == ElementOf(out[q].id)
                 IN el = 0 \/ OpenIdx(el) >= p

\* Two elements with different contents were pushed and finished.
C4_Witness ==
    /\ Len(RootItems) = 2
    /\ RootItems[1].t = "dict" /\ RootItems[2].t = "dict"
    /\ HasKey(RootItems[1].d, "Contents") /\ HasKey(RootItems[2].d, "Contents")
    /\ Lookup(RootItems[1].d, "Contents") # Lookup(RootItems[2].d, "Contents")

(***************************************************************************)
(* C5: after border(h, v, w, dash) the annotation holds under Border an    *)
(* array of h, v, w, followed by one nested array of the dash lengths when *)
(* a pattern was given (also an empty one) and by nothing when none was;   *)
(* the array is closed when border returns.                                *)
(***************************************************************************)
C5_Border ==
    (calls # <<>> /\ LastCall.op = "border")
        => LET c == LastCall
               b == Lookup(TopFrame.d, "Border")
               e == out[Len(out)]
           IN /\ TopFrame.kind = "Annotation"
              /\ Cardinality({j \in DOMAIN TopFrame.d : TopFrame.d[j].k = "Border"}) = 1
              /\ b.t = "array"
              /\ Len(b.a) = IF c.opt = 1 THEN 4 ELSE 3
              /\ b.a[1] = VReal(c.n[1])
              /\ b.a[2] = VReal(c.n[2])
              /\ b.a[3] = VReal(c.n[3])
              /\ c.opt = 1 =>
                    /\ b.a[4].t = "array"
                    /\ Len(b.a[4].a) = Len(c.p)
                    /\ \A j \in DOMAIN c.p : b.a[4].a[j] = VReal(c.p[j])
              /\ e.e = "close"
              /\ out[OpenIdx(e.id)].k = "Border"
              /\ out[OpenIdx(e.id)].par = TopFrame.id
              /\ \A p \in DOMAIN out : out[p].e = "open" /\ out[p].kind = "Array"
                                          => IsClosed(out[p].id)

\* border was called without a pattern, with an empty one and, last, with <<4, 5>>.
C5_Witness ==
    /\ calls # <<>> /\ LastCall.op = "border"
    /\ LastCall.opt = 1 /\ LastCall.p = <<4, 5>>
    /\ \E n \in DOMAIN calls : calls[n].op = "border" /\ calls[n].opt = 0
    /\ \E n \in DOMAIN calls :
          calls[n].op = "border" /\ calls[n].opt = 1 /\ calls[n].p = <<>>

(***************************************************************************)
(* C6: after a color setter the annotation holds under C, once, an array   *)
(* of the setter's arguments in order and unchanged: none for              *)
(* color_transparent, one for color_gray, three for color_rgb, four for    *)
(* color_cmyk.                                                             *)
(***************************************************************************)
ColorSetters == {"color_transparent", "color_gray", "color_rgb", "color_cmyk"}

Components(op) ==
    CASE op = "color_transparent" -> 0
      [] op = "color_gray" -> 1
      [] op = "color_rgb" -> 3
      [] op = "color_cmyk" -> 4

C6_Color ==
    (calls # <<>> /\ LastCall.op \in ColorSetters)
        => LET c == LastCall
               v == Lookup(TopFrame.d, "C")
           IN /\ TopFrame.kind = "Annotation"
              /\ Cardinality({j \in DOMAIN TopFrame.d : TopFrame.d[j].k = "C"}) = 1
              /\ v.t = "array"
              /\ Len(c.n) = Components(c.op)
              /\ Len(v.a) = Components(c.op)
              /\ \A j \in DOMAIN v.a : v.a[j] = VReal(c.n[j])

\* Every color setter was called on one annotation, color_cmyk last.
C6_Witness ==
    /\ Len(calls) = 4
    /\ {calls[n].op : n \in 2..4} \in
          {{"color_transparent", "color_rgb", "color_cmyk"},
           {"color_gray", "color_rgb", "color_cmyk"}}
    /\ LastCall.op = "color_cmyk"

(***************************************************************************)
(* C7: every dictionary writer puts its Type first: the event after the    *)
(* opening of such a scope writes Type with the fixed name of the writer,  *)
(* no other event gives Type to that scope, and every dictionary, open or  *)
(* finished, starts with its Type entry, also with no setter called.       *)
(***************************************************************************)
TypeName(kind) ==
    CASE kind = "Annotation" -> "Annot"
      [] kind = "Action" -> "Action"
      [] kind = "FileSpec" -> "Filespec"
      [] kind = "BorderStyle" -> "Border"

\* The writer a nested dictionary under key k of a dictionary of type t comes from.
NestedKind(t, k) ==
    CASE t = "Annot" /\ k = "A" -> "Action"
      [] t = "Annot" /\ k = "BS" -> "BorderStyle"
      [] t = "Annot" /\ k = "FS" -> "FileSpec"
      [] t = "Action" /\ k = "F" -> "FileSpec"
      [] OTHER -> "none"

C7_TypeFirst ==
    /\ \A p \in DOMAIN out :
          (out[p].e = "open" /\ out[p].kind \in DictKinds)
              => /\ p < Len(out)
                 /\ out[p + 1] = Ev("write", out[p].id, 0, "", "Type",
                                    VName(TypeName(out[p].kind)))
                 /\ \A q \in DOMAIN out :
                       Targets(q, out[p].id, "Type") => q = p + 1
    /\ \A j \in DOMAIN stack :
          stack[j].kind \in DictKinds
              => /\ stack[j].d # <<>>
                 /\ stack[j].d[1] = [k |-> "Type", v |-> VName(TypeName(stack[j].kind))]
    /\ \A j \in DOMAIN RootItems :
          RootItems[j].t = "dict" => RootItems[j].d[1].v = VName("Annot")
    /\ \A d \in AllDicts :
          /\ d # <<>>
          /\ d[1].k = "Type"
          /\ d[1].v.t = "name"
          /\ \A j \in DOMAIN d :
                d[j].v.t = "dict"
                    => /\ NestedKind(d[1].v.s, d[j].k) # "none"
                       /\ d[j].v.d # <<>>
                       /\ d[j].v.d[1] =
                             [k |-> "Type",
                              v |-> VName(TypeName(NestedKind(d[1].v.s, d[j].k)))]

\* An action with one setter called was finished inside its annotation.
C7_Witness ==
    \E d \in AllDicts :
        /\ d[1].v = VName("Action")
        /\ Len(d) = 2
        /\ calls # <<>> /\ LastCall.op = "finish" /\ LastCall.s = "Action"

(***************************************************************************)
(* C8: subtype(Link), rect((0,0,100,50)), action(), action_type(Uri),      *)
(* uri(s) on one pushed annotation, both writers finished, give exactly    *)
(* one dictionary Type=Annot, Subtype=Link, Rect=[0,0,100,50], A, with A   *)
(* the dictionary Type=Action, S=URI, URI=s.                               *)
(***************************************************************************)
LinkScenario ==
    /\ Len(calls) = 8
    /\ calls[1].op = "push"
    /\ calls[2].op = "subtype" /\ calls[2].s = "Link"
    /\ calls[3].op = "rect" /\ calls[3].n = <<0, 0, 100, 50>>
    /\ calls[4].op = "action"
    /\ calls[5].op = "action_type" /\ calls[5].s = "Uri"
    /\ calls[6].op = "uri"
    /\ calls[7].op = "finish" /\ calls[7].s = "Action"
    /\ calls[8].op = "finish" /\ calls[8].s = "Annotation"

C8_LinkAnnotation ==
    LinkScenario
        => RootItems =
              << VDict(<< [k |-> "Type", v |-> VName("Annot")],
                          [k |-> "Subtype", v |-> VName("Link")],
                          [k |-> "Rect",
                           v |-> VArr(<<VReal(0), VReal(0), VReal(100), VReal(50)>>)],
                          [k |-> "A",
                           v |-> VDict(<< [k |-> "Type", v |-> VName("Action")],
                                          [k |-> "S", v |-> VName("URI")],
                                          [k |-> "URI", v |-> VStr(calls[6].s)] >>)]
                       >>) >>

C8_Witness == LinkScenario /\ calls[6].s = "https://example.com"

(***************************************************************************)
(* C9: each flag is the single bit of its declared position, 0 for         *)
(* INVISIBLE up to 9 for LOCKED_CONTENTS; the empty set has no bit; the    *)
(* bits of a union are the or of the bits; and flags(f) writes under F the *)
(* integer of those bits, which the conversion to i32 leaves unchanged and *)
(* which lies in 0..1023.                                                  *)
(***************************************************************************)
DeclaredPosition(flag) ==
    CASE flag = "INVISIBLE" -> 0
      [] flag = "HIDDEN" -> 1
      [] flag = "PRINT" -> 2
      [] flag = "NO_ZOOM" -> 3
      [] flag = "NO_ROTATE" -> 4
      [] flag = "NO_VIEW" -> 5
      [] flag = "READ_ONLY" -> 6
      [] flag = "LOCKED" -> 7
      [] flag = "TOGGLE_NO_VIEW" -> 8
      [] flag = "LOCKED_CONTENTS" -> 9

C9_FlagBits ==
    /\ probe.a = {} =>
          /\ bits({}) = {}
          /\ \A f \in AnnotationFlags : bits({f}) = {DeclaredPosition(f)}
          /\ \A f, g \in AnnotationFlags : f # g => bits({f}) # bits({g})
    /\ bits(probe.a \cup probe.b) = BitOr(bits(probe.a), bits(probe.b))
    /\ (calls # <<>> /\ LastCall.op = "flags")
          => LET u == bits(probe.a \cup probe.b)
                 v == Lookup(TopFrame.d, "F")
             IN /\ v.t = "int"
                /\ v.n = SumPow2(u)
                /\ v.n \in 0..1023
                /\ \A f \in AnnotationFlags :
                      (f \in probe.a \cup probe.b)
                          <=> (v.n \div 2^DeclaredPosition(f)) % 2 = 1

\* flags was called with the union of two overlapping sets that holds LOCKED_CONTENTS.
C9_Witness ==
    /\ calls # <<>> /\ LastCall.op = "flags"
    /\ probe.b # {} /\ probe.b \subseteq probe.a
    /\ ~(probe.a \subseteq probe.b)
    /\ "LOCKED_CONTENTS" \in probe.a
    /\ Lookup(TopFrame.d, "F").n >= 512

(***************************************************************************)
(* C10: within each enumeration every variant has a name and two different *)
(* variants have different names.                                          *)
(***************************************************************************)
C10_NamesDistinct ==
    probe.done
        => /\ probe.ta # "" /\ probe.tb # ""
           /\ probe.a # probe.b => probe.ta # probe.tb
           /\ probe.a = probe.b => probe.ta = probe.tb

\* Two variants of BorderType were named.
C10_Witness ==
    /\ probe.done
    /\ probe.enum = "BorderType"
    /\ probe.a = "Underline" /\ probe.b = "Dashed"
====
